---- MODULE Spec2Model ----
(***************************************************************************)
(* Authentication core of auth.py: two credential collections (users and   *)
(* manufacturers), password hashing, signed bearer tokens and the          *)
(* authorization guards.                                                   *)
(*                                                                         *)
(* Conventions.  A Python Optional is a sequence: <<>> is None, <<x>> is   *)
(* the value x.  A collection is the sequence of its documents in          *)
(* insertion order; find_one returns the first match.  A hash string is a  *)
(* tuple: <<>> is the empty string "", <<"$2b$", salt, p>> is a bcrypt     *)
(* hash of p.  Time is counted in ticks, TicksPerSec of them per second,   *)
(* so that the truncation of "exp" to whole seconds is visible.            *)
(***************************************************************************)
EXTENDS Integers, Sequences, FiniteSets, TLC

VARIABLES users_collection, manufacturers_collection, now, held, started, last,
          procs

vars == <<users_collection, manufacturers_collection, now, held, started, last,
          procs>>

---------------------------------------------------------------------------
(* Bounds of the model *)

TicksPerSec == 2
StartTime == 2
MaxTime == 4

(* Program constants *)

DefaultExpireMinutes == 15
HTTP_401_UNAUTHORIZED == 401
HTTP_403_FORBIDDEN == 403

SUPER_ADMIN_USERNAME == "admin"
SECRET_KEY == "SECRET_KEY"
ALGORITHM == "HS256"

---------------------------------------------------------------------------
(* Input domains *)

Usernames == {"admin", "alice", "acme"}
ManufacturerNames == {"alice", "acme"}
Emails == {"m1@x", "m2@x"}
Passwords == {"admin123", "pw1", "pw2"}
NewPasswords == {"pw1", "pw2"}
Companies == {"co"}
Roles == {"user", "manufacturer", "super_admin"}
Salts == {1, 2}
NewSalts == {2}
NewRoles == {"user", "super_admin"}
Deltas == {-1, 0, 1, 2}
AttackerKey == "attacker"

Min(S) == CHOOSE x \in S : \A y \in S : x <= y

---------------------------------------------------------------------------
(* Password hasher *)

EmptyStr == <<>>

\* pwd_context.hash: a fresh salt each call
get_password_hash(password, salt) == <<"$2b$", salt, password>>

\* passlib identifies a hash by its scheme prefix; "" is identified by none
identify(hashed_password) ==
    Len(hashed_password) = 3 /\ hashed_password[1] = "$2b$"

\* pwd_context.verify raises UnknownHashError on a hash no scheme identifies
verify_raises(hashed_password) == ~identify(hashed_password)

\* mutant: any password verifies against an identified hash
verify_password_any(plain_password, hashed_password) ==
    identify(hashed_password)

verify_password(plain_password, hashed_password) ==
    identify(hashed_password) /\ hashed_password[3] = plain_password

---------------------------------------------------------------------------
(* Credential store access *)

find_one(collection, field, value) ==
    LET idx == {i \in 1..Len(collection) : collection[i][field] = value}
    IN  IF idx = {} THEN <<>> ELSE <<collection[Min(idx)]>>

\* UserDB.__init__: the fields kept of a document, **kwargs dropped
UserDB(username, email, hashed_password, is_active, role) ==
    [username |-> username, email |-> email,
     hashed_password |-> hashed_password, is_active |-> is_active,
     role |-> role]

get_user(username) ==
    LET user_data == find_one(users_collection, "username", username)
    IN  IF user_data /= <<>>
        THEN <<UserDB(user_data[1].username, user_data[1].email,
                      user_data[1].hashed_password, user_data[1].is_active,
                      user_data[1].role)>>
        ELSE <<>>

\* the returned dict has no "hashed_password" key
get_manufacturer(username) ==
    LET manufacturer_data ==
            find_one(manufacturers_collection, "username", username)
    IN  IF manufacturer_data /= <<>>
        THEN <<[username |-> manufacturer_data[1].username,
                email |-> manufacturer_data[1].email,
                company_name |-> manufacturer_data[1].company_name,
                is_active |-> manufacturer_data[1].is_active,
                role |-> "manufacturer"]>>
        ELSE <<>>

\* dict.get(key, default)
dict_get(d, key, default) == IF key \in DOMAIN d THEN d[key] ELSE default

---------------------------------------------------------------------------
(* Results of the operations *)

ReturnFalse(reads) == [kind |-> "False", user |-> <<>>, exc |-> "", reads |-> reads]
ReturnUser(user, reads) == [kind |-> "UserDB", user |-> <<user>>, exc |-> "", reads |-> reads]
Raise(exc, reads) == [kind |-> "raise", user |-> <<>>, exc |-> exc, reads |-> reads]

---------------------------------------------------------------------------
(* Authenticator *)

\* mutant: a wrong password for the User record falls back to the
\* Manufacturer record of the same username
authenticate_user_fallback(username, password) ==
    LET user == get_user(username)
        manufacturer_data ==
            find_one(manufacturers_collection, "username", username)
    IN  IF user /= <<>> /\ verify_password(password, user[1].hashed_password)
        THEN ReturnUser(user[1], <<"users">>)
        ELSE IF manufacturer_data /= <<>>
                /\ verify_password(password,
                                   manufacturer_data[1].hashed_password)
        THEN ReturnUser(UserDB(manufacturer_data[1].username,
                               manufacturer_data[1].email,
                               manufacturer_data[1].hashed_password,
                               manufacturer_data[1].is_active,
                               "manufacturer"),
                        <<"users", "manufacturers">>)
        ELSE ReturnFalse(<<"users", "manufacturers">>)

authenticate_user(username, password) ==
    LET user == get_user(username)
        manufacturer == get_manufacturer(username)
        mhash == IF manufacturer = <<>> THEN EmptyStr
                 ELSE dict_get(manufacturer[1], "hashed_password", EmptyStr)
    IN  IF user = <<>>
        THEN IF manufacturer = <<>>
             THEN ReturnFalse(<<"users", "manufacturers">>)
             ELSE IF verify_raises(mhash)
             THEN Raise("UnknownHashError", <<"users", "manufacturers">>)
             ELSE IF verify_password(password, mhash)
             THEN IF "hashed_password" \in DOMAIN manufacturer[1]
                  THEN ReturnUser(UserDB(manufacturer[1].username,
                                         manufacturer[1].email,
                                         manufacturer[1].hashed_password,
                                         manufacturer[1].is_active,
                                         "manufacturer"),
                                  <<"users", "manufacturers">>)
                  ELSE Raise("KeyError", <<"users", "manufacturers">>)
             ELSE ReturnFalse(<<"users", "manufacturers">>)
        ELSE IF verify_raises(user[1].hashed_password)
             THEN Raise("UnknownHashError", <<"users">>)
             ELSE IF ~verify_password(password, user[1].hashed_password)
             THEN ReturnFalse(<<"users">>)
             ELSE ReturnUser(user[1], <<"users">>)

\* mutant: a username the Manufacturer store lacks is tried in the User store
authenticate_manufacturer_fallback(username, password) ==
    LET manufacturer_data ==
            find_one(manufacturers_collection, "username", username)
        user == get_user(username)
    IN  IF manufacturer_data = <<>>
        THEN IF user /= <<>>
                /\ verify_password(password, user[1].hashed_password)
             THEN ReturnUser(user[1], <<"manufacturers", "users">>)
             ELSE ReturnFalse(<<"manufacturers", "users">>)
        ELSE IF ~verify_password(password, manufacturer_data[1].hashed_password)
        THEN ReturnFalse(<<"manufacturers">>)
        ELSE ReturnUser(UserDB(manufacturer_data[1].username,
                               manufacturer_data[1].email,
                               manufacturer_data[1].hashed_password,
                               manufacturer_data[1].is_active,
                               manufacturer_data[1].role),
                        <<"manufacturers">>)

authenticate_manufacturer(username, password) ==
    LET manufacturer_data ==
            find_one(manufacturers_collection, "username", username)
    IN  IF manufacturer_data = <<>>
        THEN ReturnFalse(<<"manufacturers">>)
        ELSE IF verify_raises(manufacturer_data[1].hashed_password)
        THEN Raise("UnknownHashError", <<"manufacturers">>)
        ELSE IF ~verify_password(password, manufacturer_data[1].hashed_password)
        THEN ReturnFalse(<<"manufacturers">>)
        ELSE ReturnUser(UserDB(manufacturer_data[1].username,
                               manufacturer_data[1].email,
                               manufacturer_data[1].hashed_password,
                               manufacturer_data[1].is_active,
                               manufacturer_data[1].role),
                        <<"manufacturers">>)

---------------------------------------------------------------------------
(* Token issuer / verifier *)

\* datetime -> whole seconds (calendar.timegm of utctimetuple), as jose does
timegm(t) == t \div TicksPerSec

Sign(claims, key) == <<key, ALGORITHM, claims>>

\* jose jwt.encode: a datetime "exp" claim becomes an integer number of seconds
jwt_encode(claims, key) ==
    LET payload == [k \in DOMAIN claims |->
                        IF k = "exp" THEN timegm(claims[k]) ELSE claims[k]]
    IN  [kind |-> "jwt", payload |-> payload, sig |-> Sign(payload, key)]

\* truthiness of Optional[timedelta]: None and timedelta(0) are falsy
timedelta_truthy(expires_delta) ==
    expires_delta /= <<>> /\ expires_delta[1] /= 0

\* the instant "expire" computed by create_access_token, in ticks
expire_instant(expires_delta, utcnow) ==
    IF timedelta_truthy(expires_delta)
    THEN utcnow + expires_delta[1]
    ELSE utcnow + DefaultExpireMinutes * 60 * TicksPerSec

create_access_token(data, expires_delta, utcnow) ==
    LET expire == expire_instant(expires_delta, utcnow)
        to_encode == [k \in DOMAIN data \cup {"exp"} |->
                         IF k = "exp" THEN expire ELSE data[k]]
    IN  jwt_encode(to_encode, SECRET_KEY)

\* mutant: a token is expired already in the second its "exp" names
jwt_decode_error_le(token, key, utcnow) ==
    IF token.kind /= "jwt" THEN "JWTError"
    ELSE IF token.sig /= Sign(token.payload, key) THEN "JWTError"
    ELSE IF "exp" \in DOMAIN token.payload
            /\ token.payload.exp <= timegm(utcnow)
    THEN "ExpiredSignatureError"
    ELSE ""

\* mutant: the signature is not verified
jwt_decode_error_nosig(token, key, utcnow) ==
    IF token.kind /= "jwt" THEN "JWTError"
    ELSE IF "exp" \in DOMAIN token.payload
            /\ token.payload.exp < timegm(utcnow)
    THEN "ExpiredSignatureError"
    ELSE ""

\* jose jwt.decode: "" when the token is accepted, else the JWTError raised
jwt_decode_error(token, key, utcnow) ==
    IF token.kind /= "jwt" THEN "JWTError"
    ELSE IF token.sig /= Sign(token.payload, key) THEN "JWTError"
    ELSE IF "exp" \in DOMAIN token.payload
            /\ token.payload.exp < timegm(utcnow)
    THEN "ExpiredSignatureError"
    ELSE ""

HTTPException(status_code, detail, headers) ==
    [status_code |-> status_code, detail |-> detail, headers |-> headers]

credentials_exception ==
    HTTPException(HTTP_401_UNAUTHORIZED, "Could not validate credentials",
                  "WWW-Authenticate: Bearer")

\* lines 160-168 of get_current_user: <<token_data>> or <<>> when it raises
decode_token_data(token) ==
    IF jwt_decode_error(token, SECRET_KEY, now) /= "" THEN <<>>
    ELSE LET payload == token.payload
         IN  IF "sub" \notin DOMAIN payload THEN <<>>
             ELSE <<[username |-> payload.sub,
                     role |-> dict_get(payload, "role", "user")]>>

---------------------------------------------------------------------------
(* Authorization guards *)

Failed(exc, reads, token_data) ==
    [exc |-> <<exc>>, user |-> <<>>, reads |-> reads, token_data |-> token_data]
Resolved(user, reads, token_data) ==
    [exc |-> <<>>, user |-> <<user>>, reads |-> reads, token_data |-> token_data]

\* mutant: the is_active check of line 185 is missing
get_current_user_no_active_check(token) ==
    LET token_data == decode_token_data(token)
    IN  IF token_data = <<>>
        THEN Failed(credentials_exception, <<>>, token_data)
        ELSE
        LET role == token_data[1].role
            found == get_user(token_data[1].username)
            manufacturer == get_manufacturer(token_data[1].username)
            user == IF found /= <<>> THEN found
                    ELSE IF manufacturer /= <<>>
                    THEN <<UserDB(manufacturer[1].username,
                                  manufacturer[1].email, EmptyStr,
                                  manufacturer[1].is_active, "manufacturer")>>
                    ELSE <<>>
            reads == IF found /= <<>> THEN <<"users">>
                     ELSE <<"users", "manufacturers">>
        IN  IF user = <<>>
            THEN Failed(credentials_exception, reads, token_data)
            ELSE Resolved([user[1] EXCEPT !.role = role], reads, token_data)

\* mutant: line 188 (user.role = role) is missing, the stored role is kept
get_current_user_store_role(token) ==
    LET token_data == decode_token_data(token)
    IN  IF token_data = <<>>
        THEN Failed(credentials_exception, <<>>, token_data)
        ELSE
        LET found == get_user(token_data[1].username)
            manufacturer == get_manufacturer(token_data[1].username)
            user == IF found /= <<>> THEN found
                    ELSE IF manufacturer /= <<>>
                    THEN <<UserDB(manufacturer[1].username,
                                  manufacturer[1].email, EmptyStr,
                                  manufacturer[1].is_active, "manufacturer")>>
                    ELSE <<>>
            reads == IF found /= <<>> THEN <<"users">>
                     ELSE <<"users", "manufacturers">>
        IN  IF user = <<>> \/ ~user[1].is_active
            THEN Failed(credentials_exception, reads, token_data)
            ELSE Resolved(user[1], reads, token_data)

\* mutant: an inactive principal gets its own "Inactive user" failure
get_current_user_inactive_detail(token) ==
    LET token_data == decode_token_data(token)
    IN  IF token_data = <<>>
        THEN Failed(credentials_exception, <<>>, token_data)
        ELSE
        LET role == token_data[1].role
            found == get_user(token_data[1].username)
            manufacturer == get_manufacturer(token_data[1].username)
            user == IF found /= <<>> THEN found
                    ELSE IF manufacturer /= <<>>
                    THEN <<UserDB(manufacturer[1].username,
                                  manufacturer[1].email, EmptyStr,
                                  manufacturer[1].is_active, "manufacturer")>>
                    ELSE <<>>
            reads == IF found /= <<>> THEN <<"users">>
                     ELSE <<"users", "manufacturers">>
        IN  IF user = <<>>
            THEN Failed(credentials_exception, reads, token_data)
            ELSE IF ~user[1].is_active
            THEN Failed(HTTPException(400, "Inactive user", ""), reads,
                        token_data)
            ELSE Resolved([user[1] EXCEPT !.role = role], reads, token_data)

\* mutant: an inactive User record falls through to the Manufacturer store
get_current_user_fallback(token) ==
    LET token_data == decode_token_data(token)
    IN  IF token_data = <<>>
        THEN Failed(credentials_exception, <<>>, token_data)
        ELSE
        LET role == token_data[1].role
            found == get_user(token_data[1].username)
            usable == found /= <<>> /\ found[1].is_active
            manufacturer == get_manufacturer(token_data[1].username)
            user == IF usable THEN found
                    ELSE IF manufacturer /= <<>>
                    THEN <<UserDB(manufacturer[1].username,
                                  manufacturer[1].email, EmptyStr,
                                  manufacturer[1].is_active, "manufacturer")>>
                    ELSE <<>>
            reads == IF usable THEN <<"users">>
                     ELSE <<"users", "manufacturers">>
        IN  IF user = <<>> \/ ~user[1].is_active
            THEN Failed(credentials_exception, reads, token_data)
            ELSE Resolved([user[1] EXCEPT !.role = role], reads, token_data)

get_current_user(token) ==
    LET token_data == decode_token_data(token)
    IN  IF token_data = <<>>
        THEN Failed(credentials_exception, <<>>, token_data)
        ELSE
        LET role == token_data[1].role
            found == get_user(token_data[1].username)
            manufacturer == get_manufacturer(token_data[1].username)
            user == IF found /= <<>> THEN found
                    ELSE IF manufacturer /= <<>>
                    THEN <<UserDB(manufacturer[1].username,
                                  manufacturer[1].email,
                                  dict_get(manufacturer[1], "hashed_password",
                                           EmptyStr),
                                  dict_get(manufacturer[1], "is_active", TRUE),
                                  dict_get(manufacturer[1], "role",
                                           "manufacturer"))>>
                    ELSE <<>>
            reads == IF found /= <<>> THEN <<"users">>
                     ELSE <<"users", "manufacturers">>
        IN  IF user = <<>> \/ ~user[1].is_active
            THEN Failed(credentials_exception, reads, token_data)
            ELSE Resolved([user[1] EXCEPT !.role = role], reads, token_data)

\* mutant: the guard raises the credentials exception instead of Forbidden
get_super_admin_user_401(current_user) ==
    IF current_user.role /= "super_admin"
    THEN [exc |-> <<credentials_exception>>, user |-> <<>>]
    ELSE [exc |-> <<>>, user |-> <<current_user>>]

get_super_admin_user(current_user) ==
    IF current_user.role /= "super_admin"
    THEN [exc |-> <<HTTPException(HTTP_403_FORBIDDEN,
                                  "Only super admins can access this endpoint",
                                  "")>>,
          user |-> <<>>]
    ELSE [exc |-> <<>>, user |-> <<current_user>>]

---------------------------------------------------------------------------
(* Registration and bootstrap *)

\* str(ObjectId): the identifier the store generated, as a string
ObjectIdStr(id) == ToString(id)

\* mutant: the document is inserted before the email query is evaluated
create_manufacturer_user_insert_first(username, email, password, company_name, salt) ==
    LET existing_user ==
            find_one(manufacturers_collection, "username", username)
        existing_email ==
            find_one(manufacturers_collection, "email", email)
        inserted_id == Len(manufacturers_collection) + 1
        manufacturer_data ==
            [id |-> inserted_id, username |-> username, email |-> email,
             hashed_password |-> get_password_hash(password, salt),
             company_name |-> company_name, is_active |-> TRUE,
             role |-> "manufacturer", created_at |-> now]
    IN  IF existing_user /= <<>>
        THEN [ret |-> <<FALSE, "Username already exists">>,
              collection |-> manufacturers_collection]
        ELSE IF existing_email /= <<>>
        THEN [ret |-> <<FALSE, "Email already registered">>,
              collection |-> Append(manufacturers_collection,
                                    manufacturer_data)]
        ELSE [ret |-> <<TRUE, ObjectIdStr(inserted_id)>>,
              collection |-> Append(manufacturers_collection,
                                    manufacturer_data)]

\* mutant: the email query of lines 206-208 is missing
create_manufacturer_user_no_email_check(username, email, password, company_name, salt) ==
    LET existing_user ==
            find_one(manufacturers_collection, "username", username)
        inserted_id == Len(manufacturers_collection) + 1
        manufacturer_data ==
            [id |-> inserted_id, username |-> username, email |-> email,
             hashed_password |-> get_password_hash(password, salt),
             company_name |-> company_name, is_active |-> TRUE,
             role |-> "manufacturer", created_at |-> now]
    IN  IF existing_user /= <<>>
        THEN [ret |-> <<FALSE, "Username already exists">>,
              collection |-> manufacturers_collection]
        ELSE [ret |-> <<TRUE, ObjectIdStr(inserted_id)>>,
              collection |-> Append(manufacturers_collection,
                                    manufacturer_data)]

\* mutant: the email is checked before the username
create_manufacturer_user_email_first(username, email, password, company_name, salt) ==
    LET existing_user ==
            find_one(manufacturers_collection, "username", username)
        existing_email ==
            find_one(manufacturers_collection, "email", email)
        inserted_id == Len(manufacturers_collection) + 1
        manufacturer_data ==
            [id |-> inserted_id, username |-> username, email |-> email,
             hashed_password |-> get_password_hash(password, salt),
             company_name |-> company_name, is_active |-> TRUE,
             role |-> "manufacturer", created_at |-> now]
    IN  IF existing_email /= <<>>
        THEN [ret |-> <<FALSE, "Email already registered">>,
              collection |-> manufacturers_collection]
        ELSE IF existing_user /= <<>>
        THEN [ret |-> <<FALSE, "Username already exists">>,
              collection |-> manufacturers_collection]
        ELSE [ret |-> <<TRUE, ObjectIdStr(inserted_id)>>,
              collection |-> Append(manufacturers_collection,
                                    manufacturer_data)]

create_manufacturer_user(username, email, password, company_name, salt) ==
    LET existing_user ==
            find_one(manufacturers_collection, "username", username)
        existing_email ==
            find_one(manufacturers_collection, "email", email)
        hashed_password == get_password_hash(password, salt)
        inserted_id == Len(manufacturers_collection) + 1
        manufacturer_data ==
            [id |-> inserted_id, username |-> username, email |-> email,
             hashed_password |-> hashed_password,
             company_name |-> company_name, is_active |-> TRUE,
             role |-> "manufacturer", created_at |-> now]
    IN  IF existing_user /= <<>>
        THEN [ret |-> <<FALSE, "Username already exists">>,
              collection |-> manufacturers_collection]
        ELSE IF existing_email /= <<>>
        THEN [ret |-> <<FALSE, "Email already registered">>,
              collection |-> manufacturers_collection]
        ELSE [ret |-> <<TRUE, ObjectIdStr(inserted_id)>>,
              collection |-> Append(manufacturers_collection,
                                    manufacturer_data)]

\* mutant: the existence check of line 32 is missing
init_super_admin_always(salt) ==
    Append(users_collection,
           [id |-> Len(users_collection) + 1,
            username |-> SUPER_ADMIN_USERNAME,
            email |-> "admin@hospital-device-risk.com",
            hashed_password |-> get_password_hash("admin123", salt),
            is_active |-> TRUE, role |-> "super_admin",
            created_at |-> now])

init_super_admin(salt) ==
    LET super_admin ==
            find_one(users_collection, "username", SUPER_ADMIN_USERNAME)
    IN  IF super_admin = <<>>
        THEN Append(users_collection,
                    [id |-> Len(users_collection) + 1,
                     username |-> SUPER_ADMIN_USERNAME,
                     email |-> "admin@hospital-device-risk.com",
                     hashed_password |-> get_password_hash("admin123", salt),
                     is_active |-> TRUE, role |-> "super_admin",
                     created_at |-> now])
        ELSE users_collection

---------------------------------------------------------------------------
(* Store contents provisioned outside this module *)

AliceDoc ==
    [id |-> 1, username |-> "alice", email |-> "alice@x",
     hashed_password |-> get_password_hash("pw1", 1), is_active |-> TRUE,
     role |-> "user", created_at |-> 0]

AdminDoc(id) ==
    [id |-> id, username |-> SUPER_ADMIN_USERNAME,
     email |-> "admin@hospital-device-risk.com",
     hashed_password |-> get_password_hash("admin123", 1),
     is_active |-> TRUE, role |-> "super_admin", created_at |-> 0]

ManufacturerDoc(id, username, email, password) ==
    [id |-> id, username |-> username, email |-> email,
     hashed_password |-> get_password_hash(password, 1),
     company_name |-> "co", is_active |-> TRUE, role |-> "manufacturer",
     created_at |-> 0]

\* update_one({"username": username}, {"$set": {"is_active": b}})
set_active(collection, username, b) ==
    LET idx == {i \in 1..Len(collection) : collection[i].username = username}
    IN  IF idx = {} THEN collection
        ELSE [collection EXCEPT ![Min(idx)].is_active = b]

\* update_one({"username": username}, {"$set": {"role": role}})
set_role(collection, username, role) ==
    LET idx == {i \in 1..Len(collection) : collection[i].username = username}
    IN  IF idx = {} THEN collection
        ELSE [collection EXCEPT ![Min(idx)].role = role]

---------------------------------------------------------------------------
(* Tokens a client can present *)

Garbage == [kind |-> "garbage", payload |-> <<>>, sig |-> <<>>]

\* the payload with its role claim rewritten, the signature left as it was
Tamper(token) ==
    [token EXCEPT !.payload =
        [k \in DOMAIN token.payload \cup {"role"} |->
            IF k = "role" THEN "super_admin" ELSE token.payload[k]]]

\* the same claims signed with a key that is not SECRET_KEY
Resign(token) == [token EXCEPT !.sig = Sign(token.payload, AttackerKey)]

Presented ==
    IF held = <<>> THEN {Garbage}
    ELSE {held[1].token, Tamper(held[1].token), Resign(held[1].token), Garbage}

\* the store record a subject resolves to: User store first, then Manufacturer
ResolvedRecord(username) ==
    LET u == find_one(users_collection, "username", username)
    IN  IF u /= <<>> THEN u
        ELSE find_one(manufacturers_collection, "username", username)

TokenClaims ==
    [sub : {"alice", "acme"}, role : Roles]
        \cup [sub : {"alice"}] \cup [role : {"user"}]

ExpiresDeltas == {<<>>} \cup {<<d>> : d \in Deltas}

---------------------------------------------------------------------------
(* Actions *)

\* the module is imported by every process that starts: line 244
InitSuperAdmin ==
    /\ \E salt \in Salts : users_collection' = init_super_admin(salt)
    /\ started' = TRUE
    /\ last' = [op |-> "init_super_admin", again |-> started]
    /\ UNCHANGED <<manufacturers_collection, now, held, procs>>

SetUserActive ==
    /\ \E username \in Usernames, b \in BOOLEAN :
          /\ users_collection' = set_active(users_collection, username, b)
          /\ users_collection' /= users_collection
          /\ last' = [op |-> "set_user_active", username |-> username]
    /\ UNCHANGED <<manufacturers_collection, now, held, started, procs>>

SetManufacturerActive ==
    /\ \E username \in ManufacturerNames, b \in BOOLEAN :
          /\ manufacturers_collection' =
                set_active(manufacturers_collection, username, b)
          /\ manufacturers_collection' /= manufacturers_collection
          /\ last' = [op |-> "set_manufacturer_active", username |-> username]
    /\ UNCHANGED <<users_collection, now, held, started, procs>>

CreateManufacturerUser ==
    /\ started
    /\ \E username \in ManufacturerNames, email \in Emails,
          password \in NewPasswords, company_name \in Companies,
          salt \in NewSalts :
          LET r == create_manufacturer_user(username, email, password,
                                            company_name, salt)
          IN  /\ manufacturers_collection' = r.collection
              /\ last' = [op |-> "create_manufacturer_user",
                          username |-> username, email |-> email,
                          password |-> password, result |-> r.ret]
    /\ UNCHANGED <<users_collection, now, held, started, procs>>

AuthenticateUser ==
    /\ started
    /\ \E username \in Usernames, password \in Passwords :
          last' = [op |-> "authenticate_user", username |-> username,
                   password |-> password,
                   result |-> authenticate_user(username, password)]
    /\ UNCHANGED <<users_collection, manufacturers_collection, now, held, started, procs>>

AuthenticateManufacturer ==
    /\ started
    /\ \E username \in Usernames, password \in Passwords :
          last' = [op |-> "authenticate_manufacturer", username |-> username,
                   password |-> password,
                   result |-> authenticate_manufacturer(username, password)]
    /\ UNCHANGED <<users_collection, manufacturers_collection, now, held, started, procs>>

CreateAccessToken ==
    /\ started
    /\ \E data \in TokenClaims, expires_delta \in ExpiresDeltas :
          held' = <<[token |-> create_access_token(data, expires_delta, now),
                     data |-> data, expires_delta |-> expires_delta,
                     expire |-> expire_instant(expires_delta, now),
                     issued_active |->
                        /\ "sub" \in DOMAIN data
                        /\ ResolvedRecord(data.sub) /= <<>>
                        /\ ResolvedRecord(data.sub)[1].is_active,
                     issued_role |->
                        IF "sub" \in DOMAIN data
                              /\ ResolvedRecord(data.sub) /= <<>>
                        THEN ResolvedRecord(data.sub)[1].role ELSE ""]>>
    /\ last' = [op |-> "create_access_token"]
    /\ UNCHANGED <<users_collection, manufacturers_collection, now, started, procs>>

GetCurrentUser ==
    /\ started
    /\ \E token \in Presented :
          last' = [op |-> "get_current_user", token |-> token,
                   result |-> get_current_user(token)]
    /\ UNCHANGED <<users_collection, manufacturers_collection, now, held, started, procs>>

\* the guard runs on the principal its dependency get_current_user resolved
GetSuperAdminUser ==
    /\ started
    /\ \E token \in Presented :
          LET current == get_current_user(token)
          IN  /\ current.exc = <<>>
              /\ last' = [op |-> "get_super_admin_user", token |-> token,
                          current_user |-> current.user[1],
                          result |-> get_super_admin_user(current.user[1])]
    /\ UNCHANGED <<users_collection, manufacturers_collection, now, held, started, procs>>

SetUserRole ==
    /\ \E username \in ManufacturerNames, role \in NewRoles :
          /\ users_collection' = set_role(users_collection, username, role)
          /\ users_collection' /= users_collection
          /\ last' = [op |-> "set_user_role", username |-> username]
    /\ UNCHANGED <<manufacturers_collection, now, held, started, procs>>

SetManufacturerRole ==
    /\ \E username \in ManufacturerNames, role \in NewRoles :
          /\ manufacturers_collection' =
                set_role(manufacturers_collection, username, role)
          /\ manufacturers_collection' /= manufacturers_collection
          /\ last' = [op |-> "set_manufacturer_role", username |-> username]
    /\ UNCHANGED <<users_collection, now, held, started, procs>>

Tick ==
    /\ now < MaxTime
    /\ now' = now + 1
    /\ last' = [op |-> "tick"]
    /\ UNCHANGED <<users_collection, manufacturers_collection, held, started, procs>>

---------------------------------------------------------------------------
(* Authentication, registration and bootstrap against the stores *)

Init ==
    /\ users_collection \in {<<>>, <<AliceDoc>>, <<AliceDoc, AdminDoc(2)>>}
    /\ manufacturers_collection = <<>>
    /\ now = StartTime
    /\ held = <<>>
    /\ started = FALSE
    /\ last = [op |-> "none"]
    /\ procs = <<>>

Next ==
    \/ InitSuperAdmin
    \/ SetUserActive
    \/ SetManufacturerActive
    \/ CreateManufacturerUser
    \/ AuthenticateUser
    \/ AuthenticateManufacturer

Spec == Init /\ [][Next]_vars

(* Token issue, verification and authorization in a started process *)

InitToken ==
    /\ users_collection = <<AliceDoc, AdminDoc(2)>>
    /\ manufacturers_collection \in
          {<<ManufacturerDoc(1, "acme", "m1@x", "pw1")>>,
           <<ManufacturerDoc(1, "alice", "m1@x", "pw2")>>}
    /\ now = StartTime
    /\ held = <<>>
    /\ started = TRUE
    /\ last = [op |-> "none"]
    /\ procs = <<>>

NextToken ==
    \/ CreateAccessToken
    \/ GetCurrentUser
    \/ GetSuperAdminUser
    \/ Tick
    \/ SetUserActive
    \/ SetManufacturerActive

SpecToken == InitToken /\ [][NextToken]_vars

(* Token use while the role field of the stored records is changed *)

NextRole ==
    \/ CreateAccessToken
    \/ GetCurrentUser
    \/ GetSuperAdminUser
    \/ Tick
    \/ SetUserRole
    \/ SetManufacturerRole

SpecRole == InitToken /\ [][NextRole]_vars

(* Concurrent processes.  The store serializes single operations           *)
(* (find_one, insert_one) and enforces no uniqueness; a process is between  *)
(* two of its store operations at every pc other than "ready" and "done".   *)

Procs == {1, 2}
ConcPasswords == {"pw1"}

Other(p) == CHOOSE q \in Procs : q /= p

IdleProc ==
    [pc |-> "import", username |-> "", email |-> "", password |-> "",
     raced |-> FALSE]

\* mutant: the existence check of line 32 always finds the record missing
super_admin_missing_always(collection) == TRUE

\* lines 31-32: find_one({"username": SUPER_ADMIN_USERNAME}) found nothing
super_admin_missing(collection) ==
    find_one(collection, "username", SUPER_ADMIN_USERNAME) = <<>>

\* line 31 on import; raced records that the other process had already
\* passed its own check and not yet inserted
InitFindOne(p) ==
    /\ procs[p].pc = "import"
    /\ procs' = [procs EXCEPT
                   ![p].pc = IF super_admin_missing(users_collection)
                             THEN "init_insert" ELSE "ready",
                   ![p].raced = /\ super_admin_missing(users_collection)
                                /\ procs[Other(p)].pc = "init_insert"]
    /\ last' = [op |-> "init_super_admin.find_one", proc |-> p]
    /\ UNCHANGED <<users_collection, manufacturers_collection, now, held,
                   started>>

\* lines 33-41
InitInsertOne(p) ==
    /\ procs[p].pc = "init_insert"
    /\ \E salt \in NewSalts :
          users_collection' =
              Append(users_collection,
                     [id |-> Len(users_collection) + 1,
                      username |-> SUPER_ADMIN_USERNAME,
                      email |-> "admin@hospital-device-risk.com",
                      hashed_password |-> get_password_hash("admin123", salt),
                      is_active |-> TRUE, role |-> "super_admin",
                      created_at |-> now])
    /\ procs' = [procs EXCEPT ![p].pc = "ready"]
    /\ last' = [op |-> "init_super_admin.insert_one", proc |-> p]
    /\ UNCHANGED <<manufacturers_collection, now, held, started>>

\* lines 202-204: the call starts with the username query
CreateFindUsername(p) ==
    /\ procs[p].pc = "ready"
    /\ \E username \in ManufacturerNames, email \in Emails,
          password \in ConcPasswords :
          LET existing_user ==
                  find_one(manufacturers_collection, "username", username)
          IN  IF existing_user /= <<>>
              THEN /\ procs' = [procs EXCEPT ![p].pc = "done"]
                   /\ last' = [op |-> "create_manufacturer_user.find_username",
                               proc |-> p,
                               result |-> <<FALSE, "Username already exists">>]
              ELSE /\ procs' = [procs EXCEPT ![p].pc = "find_email",
                                             ![p].username = username,
                                             ![p].email = email,
                                             ![p].password = password]
                   /\ last' = [op |-> "create_manufacturer_user.find_username",
                               proc |-> p, result |-> <<>>]
    /\ UNCHANGED <<users_collection, manufacturers_collection, now, held,
                   started>>

\* lines 206-208
CreateFindEmail(p) ==
    /\ procs[p].pc = "find_email"
    /\ LET existing_email ==
               find_one(manufacturers_collection, "email", procs[p].email)
       IN  IF existing_email /= <<>>
           THEN /\ procs' = [procs EXCEPT ![p].pc = "done"]
                /\ last' = [op |-> "create_manufacturer_user.find_email",
                            proc |-> p,
                            result |-> <<FALSE, "Email already registered">>]
           ELSE /\ procs' = [procs EXCEPT ![p].pc = "insert_one"]
                /\ last' = [op |-> "create_manufacturer_user.find_email",
                            proc |-> p, result |-> <<>>]
    /\ UNCHANGED <<users_collection, manufacturers_collection, now, held,
                   started>>

\* lines 211-223
CreateInsertOne(p) ==
    /\ procs[p].pc = "insert_one"
    /\ \E salt \in NewSalts, company_name \in Companies :
          LET inserted_id == Len(manufacturers_collection) + 1
              manufacturer_data ==
                  [id |-> inserted_id, username |-> procs[p].username,
                   email |-> procs[p].email,
                   hashed_password |->
                       get_password_hash(procs[p].password, salt),
                   company_name |-> company_name, is_active |-> TRUE,
                   role |-> "manufacturer", created_at |-> now]
          IN  /\ manufacturers_collection' =
                    Append(manufacturers_collection, manufacturer_data)
              /\ last' = [op |-> "create_manufacturer_user.insert_one",
                          proc |-> p,
                          result |-> <<TRUE, ObjectIdStr(inserted_id)>>]
    /\ procs' = [procs EXCEPT ![p].pc = "done"]
    /\ UNCHANGED <<users_collection, now, held, started>>

InitConc ==
    /\ users_collection \in {<<>>, <<AliceDoc>>}
    /\ manufacturers_collection \in
          {<<>>, <<ManufacturerDoc(1, "acme", "m1@x", "pw1")>>}
    /\ now = StartTime
    /\ held = <<>>
    /\ started = FALSE
    /\ last = [op |-> "none"]
    /\ procs = [p \in Procs |-> IdleProc]

NextConc ==
    \E p \in Procs :
        \/ InitFindOne(p)
        \/ InitInsertOne(p)
        \/ CreateFindUsername(p)
        \/ CreateFindEmail(p)
        \/ CreateInsertOne(p)

SpecConc == InitConc /\ [][NextConc]_vars

(* Every operation of a started process: logins, registrations, token     *)
(* issue and use, with the clock running                                   *)

InitAll ==
    /\ users_collection = <<AliceDoc, AdminDoc(2)>>
    /\ manufacturers_collection =
          <<ManufacturerDoc(1, "alice", "m1@x", "pw2")>>
    /\ now = StartTime
    /\ held = <<>>
    /\ started = TRUE
    /\ last = [op |-> "none"]
    /\ procs = <<>>

NextAll ==
    \/ AuthenticateUser
    \/ AuthenticateManufacturer
    \/ CreateManufacturerUser
    \/ CreateAccessToken
    \/ GetCurrentUser
    \/ GetSuperAdminUser
    \/ Tick

SpecAll == InitAll /\ [][NextAll]_vars

---------------------------------------------------------------------------
(* Properties *)

UserRecord(username) == find_one(users_collection, "username", username)
ManufacturerRecord(username) ==
    find_one(manufacturers_collection, "username", username)
IsHashOf(hashed_password, password) ==
    \E salt \in Salts \cup NewSalts :
        hashed_password = get_password_hash(password, salt)
Rejected401(result) ==
    /\ result.exc = <<credentials_exception>>
    /\ result.exc[1].status_code = 401
    /\ result.user = <<>>
HeldPresented ==
    /\ last.op = "get_current_user"
    /\ held /= <<>>
    /\ last.token = held[1].token

C2_NoInactiveLogin ==
    (/\ last.op \in {"authenticate_user", "authenticate_manufacturer"}
     /\ last.result.kind = "UserDB")
        => LET rec == IF last.op = "authenticate_manufacturer"
                      THEN ManufacturerRecord(last.username)
                      ELSE ResolvedRecord(last.username)
           IN  rec /= <<>> /\ rec[1].is_active

\* C3: for a username in the User store, authenticate_user returns that
\* user's Principal when the password is the one whose hash is stored and
\* False for any other password; for a username in neither store it
\* returns False for every password.
C3_AuthenticateUser ==
    last.op = "authenticate_user" =>
        LET u == UserRecord(last.username)
            m == ManufacturerRecord(last.username)
        IN  /\ u /= <<>> =>
                IF IsHashOf(u[1].hashed_password, last.password)
                THEN /\ last.result.kind = "UserDB"
                     /\ last.result.user =
                           <<UserDB(u[1].username, u[1].email,
                                    u[1].hashed_password, u[1].is_active,
                                    u[1].role)>>
                ELSE last.result.kind = "False"
            /\ (u = <<>> /\ m = <<>>) => last.result.kind = "False"

C3_Witness ==
    /\ last.op = "authenticate_user"
    /\ last.username = "alice"
    /\ UserRecord("alice") /= <<>>
    /\ IsHashOf(UserRecord("alice")[1].hashed_password, last.password)
    /\ last.result.kind = "UserDB"
    /\ last.result.user[1].username = "alice"

\* C4: for a username absent from the User store and registered by a
\* successful create_manufacturer_user with password p,
\* authenticate_user(username, p) returns a Principal carrying that
\* username and role "manufacturer".
C4_ManufacturerLogin ==
    (/\ last.op = "authenticate_user"
     /\ UserRecord(last.username) = <<>>
     /\ ManufacturerRecord(last.username) /= <<>>
     /\ IsHashOf(ManufacturerRecord(last.username)[1].hashed_password,
                 last.password))
        => /\ last.result.kind = "UserDB"
           /\ last.result.user[1].username = last.username
           /\ last.result.user[1].role = "manufacturer"

\* C5: a token made by create_access_token({sub: S, role: R}, d) and
\* decoded before its expiration instant is accepted, and the decoded
\* claims are exactly username = S and role = R.
C5_RoundTrip ==
    (/\ HeldPresented
     /\ {"sub", "role"} \subseteq DOMAIN held[1].data
     /\ now < held[1].expire)
        => last.result.token_data =
              <<[username |-> held[1].data.sub, role |-> held[1].data.role]>>

C5_Witness ==
    /\ HeldPresented
    /\ held[1].expires_delta = <<1>>
    /\ held[1].data = [sub |-> "acme", role |-> "manufacturer"]
    /\ now < held[1].expire
    /\ last.result.token_data =
          <<[username |-> "acme", role |-> "manufacturer"]>>

\* C6: a token issued with an expiry duration of 0 or a negative duration
\* is rejected by the verification in get_current_user at every time at or
\* after issuance.
C6_ZeroOrPastExpiryRejected ==
    (/\ HeldPresented
     /\ held[1].expires_delta /= <<>>
     /\ held[1].expires_delta[1] <= 0)
        => /\ last.result.token_data = <<>>
           /\ Rejected401(last.result)

\* C7: get_super_admin_user returns the principal it was given, unchanged,
\* exactly when its role is "super_admin"; for every other role it fails
\* with 403 Forbidden and never with 401.
C7_SuperAdminGuard ==
    last.op = "get_super_admin_user" =>
        IF last.current_user.role = "super_admin"
        THEN /\ last.result.exc = <<>>
             /\ last.result.user = <<last.current_user>>
        ELSE /\ last.result.user = <<>>
             /\ Len(last.result.exc) = 1
             /\ last.result.exc[1].status_code = 403
             /\ last.result.exc[1].status_code /= 401

C7_Witness ==
    /\ last.op = "get_super_admin_user"
    /\ last.current_user.role = "manufacturer"
    /\ last.result.user = <<>>
    /\ last.result.exc[1].status_code = 403

\* C8: create_manufacturer_user checks the username first, then the email:
\* (False, "Username already exists") whenever the username is in the
\* Manufacturer store (also when the email is a duplicate too),
\* (False, "Email already registered") when only the email is, and
\* (True, id) with a non-empty id after inserting exactly one record when
\* both are new.
C8_CreateManufacturerOutcome ==
    [][last'.op = "create_manufacturer_user" =>
        LET old == manufacturers_collection
            new == manufacturers_collection'
            dupUser == \E i \in 1..Len(old) : old[i].username = last'.username
            dupEmail == \E i \in 1..Len(old) : old[i].email = last'.email
        IN  IF dupUser
            THEN /\ last'.result = <<FALSE, "Username already exists">>
                 /\ new = old
            ELSE IF dupEmail
            THEN /\ last'.result = <<FALSE, "Email already registered">>
                 /\ new = old
            ELSE /\ last'.result[1] = TRUE
                 /\ last'.result[2] /= ""
                 /\ Len(new) = Len(old) + 1
                 /\ SubSeq(new, 1, Len(old)) = old
                 /\ new[Len(new)].username = last'.username
                 /\ new[Len(new)].email = last'.email
                 /\ IsHashOf(new[Len(new)].hashed_password, last'.password)
    ]_vars

C8_Witness ==
    /\ last.op = "create_manufacturer_user"
    /\ last.result = <<FALSE, "Username already exists">>
    /\ \E i \in 1..Len(manufacturers_collection) :
          manufacturers_collection[i].username = last.username
    /\ \E i \in 1..Len(manufacturers_collection) :
          /\ manufacturers_collection[i].email = last.email
          /\ manufacturers_collection[i].username /= last.username

\* C9: init_super_admin is idempotent when run sequentially: after any run
\* the User store holds exactly one record with username "admin", and a
\* run after an earlier run (or on a store that already has the record)
\* inserts nothing.
AdminCount(collection) ==
    Cardinality({i \in 1..Len(collection) :
                    collection[i].username = SUPER_ADMIN_USERNAME})

C9_InitIdempotent ==
    [][last'.op = "init_super_admin" =>
        /\ AdminCount(users_collection') = 1
        /\ (last'.again => users_collection' = users_collection)
        /\ (AdminCount(users_collection) >= 1
               => users_collection' = users_collection)
    ]_vars

C9_Witness ==
    /\ last.op = "init_super_admin"
    /\ last.again
    /\ AdminCount(users_collection) = 1

C11_TokenRoleWins ==
    /\ (/\ last.op = "get_current_user"
        /\ last.result.exc = <<>>
        /\ "role" \in DOMAIN last.token.payload)
           => last.result.user[1].role = last.token.payload.role
    /\ (/\ last.op = "get_super_admin_user"
        /\ "role" \in DOMAIN last.token.payload
        /\ last.token.payload.role = "super_admin")
           => /\ last.result.exc = <<>>
              /\ last.result.user[1].role = "super_admin"

C11_Witness ==
    /\ last.op = "get_super_admin_user"
    /\ held /= <<>>
    /\ last.token = held[1].token
    /\ "role" \in DOMAIN held[1].data
    /\ held[1].data.role = "super_admin"
    /\ held[1].issued_role = "super_admin"
    /\ ResolvedRecord(held[1].data.sub)[1].role = "user"
    /\ last.result.exc = <<>>
    /\ last.result.user[1].role = "super_admin"

\* C12: every failure of get_current_user has the same visible outcome:
\* whatever check failed, status, detail and headers are those of the
\* failure a malformed token gets.
C12_UniformFailure ==
    (last.op = "get_current_user" /\ last.result.exc /= <<>>)
        => /\ last.result.exc = get_current_user(Garbage).exc
           /\ last.result.exc[1].status_code = 401
           /\ last.result.exc[1].detail = "Could not validate credentials"
           /\ last.result.exc[1].headers = "WWW-Authenticate: Bearer"
           /\ last.result.user = <<>>

C12_Witness ==
    /\ HeldPresented
    /\ last.result.token_data /= <<>>
    /\ ResolvedRecord(held[1].data.sub) /= <<>>
    /\ ~ResolvedRecord(held[1].data.sub)[1].is_active
    /\ last.result.exc /= <<>>
    /\ last.result.exc = get_current_user(Garbage).exc

\* C18: when a username is in both stores get_current_user resolves the
\* token against the User record only: an inactive User record fails with
\* 401 although an active Manufacturer record of that name exists, and the
\* Manufacturer store is consulted only when the User store has no record
\* for the subject.
C18_UserStoreFirst ==
    (last.op = "get_current_user" /\ last.result.token_data /= <<>>)
        => LET sub == last.result.token_data[1].username
           IN  /\ UserRecord(sub) /= <<>> => last.result.reads = <<"users">>
               /\ UserRecord(sub) = <<>>
                     => last.result.reads = <<"users", "manufacturers">>
               /\ (UserRecord(sub) /= <<>> /\ ~UserRecord(sub)[1].is_active)
                     => Rejected401(last.result)

C18_Witness ==
    /\ HeldPresented
    /\ last.result.token_data /= <<>>
    /\ UserRecord(held[1].data.sub) /= <<>>
    /\ ~UserRecord(held[1].data.sub)[1].is_active
    /\ ManufacturerRecord(held[1].data.sub) /= <<>>
    /\ ManufacturerRecord(held[1].data.sub)[1].is_active
    /\ Rejected401(last.result)
    /\ last.result.reads = <<"users">>

\* C13: when a username is in both stores authenticate_user is decided by
\* the User record alone: a password that does not match the user's hash
\* gives False also when it is the manufacturer's correct password, and
\* the Manufacturer store is not consulted.
C13_UserRecordDecides ==
    (/\ last.op = "authenticate_user"
     /\ UserRecord(last.username) /= <<>>
     /\ ManufacturerRecord(last.username) /= <<>>)
        => /\ last.result.reads = <<"users">>
           /\ IF IsHashOf(UserRecord(last.username)[1].hashed_password,
                          last.password)
              THEN /\ last.result.kind = "UserDB"
                   /\ last.result.user[1].role =
                         UserRecord(last.username)[1].role
              ELSE last.result.kind = "False"

C13_Witness ==
    /\ last.op = "authenticate_user"
    /\ UserRecord(last.username) /= <<>>
    /\ ManufacturerRecord(last.username) /= <<>>
    /\ ~IsHashOf(UserRecord(last.username)[1].hashed_password, last.password)
    /\ IsHashOf(ManufacturerRecord(last.username)[1].hashed_password,
                last.password)
    /\ last.result.kind = "False"
    /\ last.result.reads = <<"users">>

\* C14: authenticate_manufacturer returns a Principal exactly when the
\* Manufacturer store holds a record of that username whose hash the
\* password verifies against, otherwise False, and never consults the User
\* store: a username only in the User store gives False with that user's
\* correct password.
C14_ManufacturerOnly ==
    last.op = "authenticate_manufacturer" =>
        LET m == ManufacturerRecord(last.username)
        IN  /\ last.result.reads = <<"manufacturers">>
            /\ IF m /= <<>> /\ IsHashOf(m[1].hashed_password, last.password)
               THEN /\ last.result.kind = "UserDB"
                    /\ last.result.user =
                          <<UserDB(m[1].username, m[1].email,
                                   m[1].hashed_password, m[1].is_active,
                                   m[1].role)>>
               ELSE last.result.kind = "False"

C14_Witness ==
    /\ last.op = "authenticate_manufacturer"
    /\ ManufacturerRecord(last.username) = <<>>
    /\ UserRecord(last.username) /= <<>>
    /\ IsHashOf(UserRecord(last.username)[1].hashed_password, last.password)
    /\ last.result.kind = "False"
    /\ Len(manufacturers_collection) >= 1

\* C15: with every create_manufacturer_user call atomic, in every state
\* reached from an empty Manufacturer store no two manufacturer records
\* share a username and no two share an email.
C15_UniqueSequential ==
    \A i, j \in 1..Len(manufacturers_collection) :
        i /= j =>
            /\ manufacturers_collection[i].username
                  /= manufacturers_collection[j].username
            /\ manufacturers_collection[i].email
                  /= manufacturers_collection[j].email

C15_Witness ==
    /\ last.op = "create_manufacturer_user"
    /\ last.result[1] = TRUE
    /\ Len(manufacturers_collection) = 2
    /\ manufacturers_collection[2].username = last.username

\* C16: when two create_manufacturer_user calls with the same username run
\* concurrently, interleaved between their store operations, at most one
\* of them inserts and the Manufacturer store never holds two records with
\* that username.
C16_UniqueUsernameConcurrent ==
    \A i, j \in 1..Len(manufacturers_collection) :
        i /= j => manufacturers_collection[i].username
                     /= manufacturers_collection[j].username

\* C17: when two processes run init_super_admin concurrently, interleaved
\* between the find_one check and the insert_one, the User store never
\* holds two records with username "admin".
C17_AtMostOneAdminConcurrent == AdminCount(users_collection) <= 1

\* C17 as amended: the User store holds two "admin" records only when a
\* process ran its find_one check while the other process was between its
\* own check and its insert_one, and never more than one per process.
C17_OneAdminUnlessRaced ==
    /\ AdminCount(users_collection) <= Cardinality(Procs)
    /\ AdminCount(users_collection) >= 2 => \E p \in Procs : procs[p].raced

C17_Witness ==
    /\ \A p \in Procs : procs[p].pc \notin {"import", "init_insert"}
    /\ \A p \in Procs : ~procs[p].raced
    /\ AdminCount(users_collection) = 1
    /\ last.op = "init_super_admin.find_one"

\* C19: a token carries no server-side state and cannot be revoked: for a
\* token whose subject has an existing, active record, get_current_user
\* succeeds on every call made before the token's expiration instant,
\* however often it was used and whatever logins, registrations and token
\* issues happened in between.
C19_StatelessToken ==
    (/\ HeldPresented
     /\ "sub" \in DOMAIN held[1].data
     /\ now < held[1].expire
     /\ ResolvedRecord(held[1].data.sub) /= <<>>
     /\ ResolvedRecord(held[1].data.sub)[1].is_active)
        => /\ last.result.exc = <<>>
           /\ last.result.user[1].username = held[1].data.sub

C19_Witness ==
    /\ HeldPresented
    /\ "sub" \in DOMAIN held[1].data
    /\ held[1].data.sub = "acme"
    /\ ~held[1].issued_active
    /\ held[1].expires_delta = <<2>>
    /\ now > StartTime
    /\ now < held[1].expire
    /\ last.result.exc = <<>>
    /\ last.result.user[1].username = "acme"

\* C20: authenticate_user, authenticate_manufacturer, create_access_token,
\* get_current_user and get_super_admin_user leave both stores unchanged;
\* a create_manufacturer_user call that returns (False, ...) leaves both
\* unchanged and one that returns (True, id) changes only the Manufacturer
\* store, by adding one record.
C20_Frame ==
    [][/\ last'.op \in {"authenticate_user", "authenticate_manufacturer",
                        "create_access_token", "get_current_user",
                        "get_super_admin_user"}
          => /\ users_collection' = users_collection
             /\ manufacturers_collection' = manufacturers_collection
       /\ last'.op = "create_manufacturer_user"
          => /\ users_collection' = users_collection
             /\ IF last'.result[1]
                THEN /\ Len(manufacturers_collection')
                           = Len(manufacturers_collection) + 1
                     /\ SubSeq(manufacturers_collection', 1,
                               Len(manufacturers_collection))
                           = manufacturers_collection
                ELSE manufacturers_collection' = manufacturers_collection
    ]_vars

C20_Witness ==
    /\ last.op = "create_manufacturer_user"
    /\ last.result[1] = TRUE
    /\ Len(manufacturers_collection) = 2
    /\ manufacturers_collection[2].username = last.username
    /\ manufacturers_collection[1] = ManufacturerDoc(1, "alice", "m1@x", "pw2")
    /\ users_collection = <<AliceDoc, AdminDoc(2)>>
    /\ held /= <<>>

====
